---- MODULE Spec2Model ----
(***************************************************************************)
(* The iceditor application (src/main.rs): the Editor state, its update    *)
(* function, and the asynchronous commands (pick_file, load_file,          *)
(* save_file) the runtime executes between two calls of update.            *)
(*                                                                         *)
(* The text buffer is the toolkit's text_editor::Content: it is modelled   *)
(* as a text with a cursor, and text() as the text it holds. Files change  *)
(* only through the editor's own writes.                                   *)
(***************************************************************************)
EXTENDS Integers, Sequences, FiniteSets, Bags, TLC

(* ------------------------------ bounds -------------------------------- *)

\* Longest text an Insert may leave in the buffer, in characters.
MaxLen == 1

\* Commands issued over a run, the load Editor::new issues included.
MaxRequests == 2

(* ------------------------------ values -------------------------------- *)

Chars == {"a"}

\* Option<PathBuf>::None
NoPath == "None"

default_file == "src/main.rs"

Paths == {default_file, "notes.txt"}

ErrorKinds == {"NotFound", "PermissionDenied"}

Themes == {"SolarizedDark", "InspiredGitHub"}

\* Option<Error>::None, Error::DialogClosed, Error::IoFailed(kind)
NoError == [tag |-> "None", kind |-> "-"]

DialogClosed == [tag |-> "DialogClosed", kind |-> "-"]

IoFailed(k) == [tag |-> "IoFailed", kind |-> k]

(* ---------------------- text_editor::Content -------------------------- *)

\* Content::new(): an empty buffer, cursor at the start.
ContentNew == [text |-> <<>>, cursor |-> 0]

\* Content::with_text(t): the buffer holds t, cursor at the start.
ContentWithText(t) == [text |-> t, cursor |-> 0]

\* Content::text()
ContentText(c) == c.text

\* text_editor::Action, the ones the model draws from.
Actions ==
    [kind : {"Insert"}, ch : Chars]
        \cup [kind : {"Backspace", "MoveLeft", "MoveRight"}, ch : {"-"}]

\* Action::is_edit(): the Action::Edit(_) variants.
is_edit(a) == a.kind \in {"Insert", "Backspace"}

\* Content::perform(action)
ContentPerform(c, a) ==
    CASE a.kind = "Insert" ->
            [text |-> SubSeq(c.text, 1, c.cursor) \o <<a.ch>>
                        \o SubSeq(c.text, c.cursor + 1, Len(c.text)),
             cursor |-> c.cursor + 1]
      [] a.kind = "Backspace" ->
            IF c.cursor = 0 THEN c
            ELSE [text |-> SubSeq(c.text, 1, c.cursor - 1)
                             \o SubSeq(c.text, c.cursor + 1, Len(c.text)),
                  cursor |-> c.cursor - 1]
      [] a.kind = "MoveLeft" ->
            [c EXCEPT !.cursor = IF c.cursor = 0 THEN 0 ELSE c.cursor - 1]
      [] a.kind = "MoveRight" ->
            [c EXCEPT !.cursor = IF c.cursor = Len(c.text) THEN c.cursor
                                 ELSE c.cursor + 1]

(* ------------------------------ state --------------------------------- *)

VARIABLES
    path,       \* Editor.path: NoPath or a path
    content,    \* Editor.content
    error,      \* Editor.error
    theme,      \* Editor.theme
    is_dirty,   \* Editor.is_dirty
    tasks,      \* the commands in flight: a bag of futures
    issued,     \* number of commands issued so far
    completed,  \* number of completion messages update has handled
    disk,       \* the file system: the text held at each path; at startup
                \* default_file holds "a" and the other files are empty
    replaced    \* a save is in flight, and New or FileOpened(Ok) was handled
                \* since the latest Save

vars ==
    <<path, content, error, theme, is_dirty, tasks, issued, completed, disk,
      replaced>>

Editor ==
    [path |-> path, content |-> content, error |-> error, theme |-> theme,
     is_dirty |-> is_dirty]

(* ----------------------------- messages ------------------------------- *)

NoAction == [kind |-> "-", ch |-> "-"]

NoResult == [ok |-> FALSE, path |-> NoPath, text |-> <<>>, err |-> NoError]

\* Ok((path, content)) of load_file / pick_file
OkRead(p, t) == [ok |-> TRUE, path |-> p, text |-> t, err |-> NoError]

\* Ok(path) of save_file
OkSaved(p) == [ok |-> TRUE, path |-> p, text |-> <<>>, err |-> NoError]

Err(e) == [ok |-> FALSE, path |-> NoPath, text |-> <<>>, err |-> e]

Msg(type, action, result, th) ==
    [type |-> type, action |-> action, result |-> result, theme |-> th]

MsgNew == Msg("New", NoAction, NoResult, "-")

MsgEdit(a) == Msg("Edit", a, NoResult, "-")

MsgOpen == Msg("Open", NoAction, NoResult, "-")

MsgFileOpened(r) == Msg("FileOpened", NoAction, r, "-")

MsgSave == Msg("Save", NoAction, NoResult, "-")

MsgFileSaved(r) == Msg("FileSaved", NoAction, r, "-")

MsgThemeSelected(th) == Msg("ThemeSelected", NoAction, NoResult, th)

(* ----------------------------- commands ------------------------------- *)

CommandNone == [kind |-> "none", path |-> NoPath, text |-> <<>>]

\* Command::perform(pick_file(), Message::FileOpened)
CommandPickFile == [kind |-> "pick_file", path |-> NoPath, text |-> <<>>]

\* Command::perform(load_file(p), Message::FileOpened)
CommandLoadFile(p) == [kind |-> "load_file", path |-> p, text |-> <<>>]

\* Command::perform(save_file(p, t), Message::FileSaved)
CommandSaveFile(p, t) == [kind |-> "save_file", path |-> p, text |-> t]

\* The future of a command, as the executor first polls it: pick_file and a
\* save_file without a path await a dialog, the others the file system.
Spawn(cmd) ==
    [kind |-> cmd.kind, path |-> cmd.path, text |-> cmd.text,
     stage |-> IF cmd.kind = "pick_file"
                  \/ (cmd.kind = "save_file" /\ cmd.path = NoPath)
               THEN "dialog" ELSE "io",
     attempts |-> 0, result |-> NoResult]

(* ------------------------- Editor::update ----------------------------- *)

\* Each arm gives the editor after the call and the command returned.
Out(e, cmd) == [editor |-> e, command |-> cmd]

\* Faulty variant: a new document starts clean.
update_New_Clean(e) ==
    Out([e EXCEPT !.path = NoPath, !.content = ContentNew, !.is_dirty = FALSE],
        CommandNone)

\* Faulty variant: the new document keeps the path of the one it replaces.
update_New_KeepsPath(e) ==
    Out([e EXCEPT !.content = ContentNew, !.is_dirty = TRUE], CommandNone)

update_New(e) ==
    Out([e EXCEPT !.path = NoPath, !.content = ContentNew, !.is_dirty = TRUE],
        CommandNone)

\* Faulty variant: the flag is overwritten instead of or-ed.
update_Edit_Overwrites(e, a) ==
    Out([e EXCEPT !.is_dirty = is_edit(a),
                  !.error = NoError,
                  !.content = ContentPerform(e.content, a)],
        CommandNone)

update_Edit(e, a) ==
    Out([e EXCEPT !.is_dirty = e.is_dirty \/ is_edit(a),
                  !.error = NoError,
                  !.content = ContentPerform(e.content, a)],
        CommandNone)

\* Faulty variant: opening the dialog dismisses the error shown.
update_Open_ClearsError(e) == Out([e EXCEPT !.error = NoError], CommandPickFile)

update_Open(e) == Out(e, CommandPickFile)

\* Faulty variant: a load does not replace a buffer that has unsaved edits.
update_FileOpened_Ok_KeepsEdits(e, p, t) ==
    IF e.is_dirty /\ e.path # NoPath THEN Out(e, CommandNone)
    ELSE Out([e EXCEPT !.path = p, !.content = ContentWithText(t),
                       !.is_dirty = FALSE],
             CommandNone)

update_FileOpened_Ok(e, p, t) ==
    Out([e EXCEPT !.path = p, !.content = ContentWithText(t),
                  !.is_dirty = FALSE],
        CommandNone)

\* Faulty variant: a failed load is tried again.
update_FileOpened_Err_Retries(e, err) ==
    Out([e EXCEPT !.error = err], CommandPickFile)

\* Faulty variant: a failed load empties the buffer.
update_FileOpened_Err_DropsBuffer(e, err) ==
    Out([e EXCEPT !.error = err, !.content = ContentNew], CommandNone)

update_FileOpened_Err(e, err) == Out([e EXCEPT !.error = err], CommandNone)

\* Faulty variant: the buffer is marked clean as soon as the save is requested.
update_Save_Optimistic(e) ==
    Out([e EXCEPT !.is_dirty = FALSE],
        CommandSaveFile(e.path, ContentText(e.content)))

update_Save(e) ==
    Out(e, CommandSaveFile(e.path, ContentText(e.content)))

\* Faulty variant: a successful save also clears the error shown.
update_FileSaved_Ok_ClearsError(e, p) ==
    Out([e EXCEPT !.path = p, !.is_dirty = FALSE, !.error = NoError],
        CommandNone)

update_FileSaved_Ok(e, p) ==
    Out([e EXCEPT !.path = p, !.is_dirty = FALSE], CommandNone)

\* Faulty variant: a failed save clears the flag like a successful one.
update_FileSaved_Err_ClearsDirty(e, err) ==
    Out([e EXCEPT !.error = err, !.is_dirty = FALSE], CommandNone)

update_FileSaved_Err(e, err) == Out([e EXCEPT !.error = err], CommandNone)

update_ThemeSelected(e, th) == Out([e EXCEPT !.theme = th], CommandNone)

update(e, m) ==
    CASE m.type = "New" -> update_New(e)
      [] m.type = "Edit" -> update_Edit(e, m.action)
      [] m.type = "Open" -> update_Open(e)
      [] m.type = "FileOpened" /\ m.result.ok ->
            update_FileOpened_Ok(e, m.result.path, m.result.text)
      [] m.type = "FileOpened" /\ ~m.result.ok ->
            update_FileOpened_Err(e, m.result.err)
      [] m.type = "Save" -> update_Save(e)
      [] m.type = "FileSaved" /\ m.result.ok ->
            update_FileSaved_Ok(e, m.result.path)
      [] m.type = "FileSaved" /\ ~m.result.ok ->
            update_FileSaved_Err(e, m.result.err)
      [] m.type = "ThemeSelected" -> update_ThemeSelected(e, m.theme)

(* ------------------------- Editor::view ------------------------------- *)

\* The text of the status bar's left label.
status_bar(e) ==
    IF e.error.tag = "IoFailed" THEN <<"error", e.error.kind>>
    ELSE IF e.path # NoPath THEN <<"path", e.path>>
    ELSE <<"New file", "-">>

\* The messages the widgets of view can send in state e: the New and Open
\* buttons always carry theirs, the Save button only when is_dirty, and the
\* pick_list any theme; the text_editor sends an Edit per action.
view(e) ==
    {MsgNew, MsgOpen}
        \cup (IF e.is_dirty THEN {MsgSave} ELSE {})
        \cup {MsgThemeSelected(th) : th \in Themes}
        \cup {MsgEdit(a) : a \in Actions}

\* Faulty variant: the key press sends Save only when the Save button would.
subscription_WhenDirty(e) == IF e.is_dirty THEN {MsgSave} ELSE {}

\* The messages a key press can send: Save on Ctrl/Cmd+S, in any state.
subscription(e) == {MsgSave}

(* ----------------------- the async functions -------------------------- *)

\* pick_file / save_file: the dialog returned a handle for p.
dialog_picked(t, p) == [t EXCEPT !.path = p, !.stage = "io"]

\* pick_file / save_file: the dialog returned None.
dialog_closed(t) == [t EXCEPT !.stage = "done", !.result = Err(DialogClosed)]

\* load_file: read_to_string returned Ok(text).
load_file_Ok(t, text) ==
    [t EXCEPT !.stage = "done", !.attempts = @ + 1,
              !.result = OkRead(t.path, text)]

\* load_file / save_file: the file system call returned Err(err), err.kind() = k.
io_failed(t, k) ==
    [t EXCEPT !.stage = "done", !.attempts = @ + 1,
              !.result = Err(IoFailed(k))]

\* save_file: write returned Ok(()).
save_file_Ok(t) ==
    [t EXCEPT !.stage = "done", !.attempts = @ + 1, !.result = OkSaved(t.path)]

\* load_file: what tokio::fs::read_to_string(&path) gives future t.
load_file_read(d, t) == d[t.path]

\* Faulty variant: the write takes the buffer as it is when the write runs.
save_file_write_current(d, t) == [d EXCEPT ![t.path] = ContentText(content)]

\* save_file: what tokio::fs::write(&path, text) of future t leaves on disk.
save_file_write(d, t) == [d EXCEPT ![t.path] = t.text]

(* ---------------------------- the runtime ----------------------------- *)

One(t) == SetToBag({t})

InFlight == BagToSet(tasks)

\* Application::new
Init ==
    /\ path = NoPath
    /\ content = ContentNew
    /\ error = NoError
    /\ theme = "SolarizedDark"
    /\ is_dirty = TRUE
    /\ tasks = One(Spawn(CommandLoadFile(default_file)))
    /\ issued = 1
    /\ completed = 0
    /\ disk = [p \in Paths |-> IF p = default_file THEN <<"a">> ELSE <<>>]
    /\ replaced = FALSE

\* Whether New or FileOpened(Ok) has replaced the document since the latest
\* Save message, once update(m) has run; kept only while a save is in flight.
Replaced(m) ==
    IF m.type = "Save" THEN FALSE
    ELSE IF \A t \in BagToSet(tasks') : t.kind # "save_file" THEN FALSE
    ELSE IF m.type = "New" \/ (m.type = "FileOpened" /\ m.result.ok) THEN TRUE
    ELSE replaced

\* The runtime calls update(m) and spawns the command it returns; `gone` is
\* the bag holding the finished future whose output m carries, if any.
Dispatch(m, gone) ==
    LET out == update(Editor, m)
    IN  /\ path' = out.editor.path
        /\ content' = out.editor.content
        /\ error' = out.editor.error
        /\ theme' = out.editor.theme
        /\ is_dirty' = out.editor.is_dirty
        /\ completed' = completed + BagCardinality(gone)
        /\ IF out.command.kind = "none"
           THEN /\ issued' = issued
                /\ tasks' = tasks (-) gone
           ELSE /\ issued < MaxRequests
                /\ issued' = issued + 1
                /\ tasks' = (tasks (-) gone) (+) One(Spawn(out.command))
        /\ replaced' = Replaced(m)
        /\ UNCHANGED disk

\* A user message: from a widget of view or the key press of subscription.
User(m) ==
    /\ m \in view(Editor) \cup subscription(Editor)
    /\ Dispatch(m, EmptyBag)

\* The message a finished future carries: its output under the constructor
\* given to Command::perform.
Completion(t) ==
    IF t.kind = "save_file" THEN MsgFileSaved(t.result)
    ELSE MsgFileOpened(t.result)

\* The runtime hands a finished future's message to update.
Deliver(t) ==
    /\ t \in InFlight
    /\ t.stage = "done"
    /\ Dispatch(Completion(t), One(t))

New ==
    /\ MsgNew \in view(Editor)
    /\ User(MsgNew)

\* The buffer is kept within MaxLen characters.
Fits(a) == a.kind = "Insert" => Len(content.text) < MaxLen

Edit == \E a \in Actions : Fits(a) /\ User(MsgEdit(a))

Open ==
    /\ MsgOpen \in view(Editor)
    /\ User(MsgOpen)

Save ==
    /\ MsgSave \in view(Editor) \cup subscription(Editor)
    /\ User(MsgSave)

ThemeSelected ==
    \E th \in Themes :
        /\ MsgThemeSelected(th) \in view(Editor)
        /\ User(MsgThemeSelected(th))

FileOpened ==
    \E t \in InFlight : t.kind \in {"load_file", "pick_file"} /\ Deliver(t)

FileSaved == \E t \in InFlight : t.kind = "save_file" /\ Deliver(t)

\* A step of the executor: the editor's fields stay as they are.
Executor(t, t2) ==
    /\ tasks' = (tasks (-) One(t)) (+) One(t2)
    /\ UNCHANGED <<path, content, error, theme, is_dirty, issued, completed,
                   replaced>>

DialogPicked ==
    \E t \in InFlight, p \in Paths :
        /\ t.stage = "dialog"
        /\ Executor(t, dialog_picked(t, p))
        /\ UNCHANGED disk

DialogCancelled ==
    \E t \in InFlight :
        /\ t.stage = "dialog"
        /\ Executor(t, dialog_closed(t))
        /\ UNCHANGED disk

\* read_to_string gives what the file holds at that moment.
ReadOk ==
    \E t \in InFlight :
        /\ t.stage = "io"
        /\ t.kind \in {"load_file", "pick_file"}
        /\ Executor(t, load_file_Ok(t, load_file_read(disk, t)))
        /\ UNCHANGED disk

WriteOk ==
    \E t \in InFlight :
        /\ t.stage = "io"
        /\ t.kind = "save_file"
        /\ Executor(t, save_file_Ok(t))
        /\ disk' = save_file_write(disk, t)

IoError ==
    \E t \in InFlight, k \in ErrorKinds :
        /\ t.stage = "io"
        /\ Executor(t, io_failed(t, k))
        /\ UNCHANGED disk

Next ==
    \/ New
    \/ Edit
    \/ Open
    \/ Save
    \/ ThemeSelected
    \/ FileOpened
    \/ FileSaved
    \/ DialogPicked
    \/ DialogCancelled
    \/ ReadOk
    \/ WriteOk
    \/ IoError

Spec == Init /\ [][Next]_vars

(* ------------------------------ claims -------------------------------- *)

\* The step hands the output of the finished future t to update.
Handled(t) ==
    /\ t \in InFlight
    /\ t.stage = "done"
    /\ completed' = completed + 1
    /\ CopiesIn(t, tasks') = CopiesIn(t, tasks) - 1

\* The step is a call of update on the user message m.
Calls(m) == Dispatch(m, EmptyBag)

\* C1: is_dirty is true iff the buffer text differs from the text last
\* written to disk; in particular, once FileSaved(Ok) of a save has been
\* handled, the buffer is reported clean only if it is the text that save
\* wrote.
C1_DirtyIffDiffersFromWritten ==
    [][\A t \in InFlight :
          (Handled(t) /\ t.kind = "save_file" /\ t.result.ok) =>
              (is_dirty' <=> ContentText(content') # t.text)]_vars

\* C2: handling a completion that carries DialogClosed changes nothing: path,
\* content, is_dirty, error and theme stay as they were, and so does the
\* status bar's text.
C2_CancelChangesNothing ==
    [][\A t \in InFlight :
          (Handled(t) /\ t.result = Err(DialogClosed)) =>
              /\ UNCHANGED <<path, content, is_dirty, error, theme>>
              /\ status_bar(Editor)' = status_bar(Editor)]_vars

\* C3: handling FileOpened(Err(IoFailed(k))) or FileSaved(Err(IoFailed(k)))
\* leaves path, content and is_dirty as they were and sets error to
\* Some(IoFailed(k)), the same kind k.
C3_IoFailedRecordsKind ==
    [][\A t \in InFlight : \A k \in ErrorKinds :
          (Handled(t) /\ t.result = Err(IoFailed(k))) =>
              /\ UNCHANGED <<path, content, is_dirty>>
              /\ error' = [tag |-> "IoFailed", kind |-> k]]_vars

\* C3 witness: a failed load or save was handled while an opened file had
\* unsaved edits; the edits, the path and the dirty flag are still there.
C3_Witness ==
    /\ error = [tag |-> "IoFailed", kind |-> "PermissionDenied"]
    /\ path # NoPath
    /\ is_dirty
    /\ completed = 2

\* C4: a step takes is_dirty from true to false only if it handles
\* FileOpened(Ok(_)) or FileSaved(Ok(_)).
C4_OnlySuccessClears ==
    [][(is_dirty /\ ~is_dirty') =>
          \E t \in InFlight : Handled(t) /\ t.result.ok]_vars

\* C4 witness: the dirty flag has been cleared, and a cancelled or failed
\* completion handled afterwards has left it cleared.
C4_Witness ==
    /\ ~is_dirty
    /\ error # NoError
    /\ completed = 2

\* C5: handling Edit(a) leaves is_dirty true when a.is_edit(), and leaves
\* is_dirty as it was otherwise; so Edit never takes is_dirty from true to
\* false.
C5_EditSetsDirty ==
    [][\A a \in Actions :
          (Fits(a) /\ User(MsgEdit(a))) =>
              /\ a.kind \in {"Insert", "Backspace"} => is_dirty'
              /\ a.kind \in {"MoveLeft", "MoveRight"} => is_dirty' = is_dirty
              /\ is_dirty => is_dirty']_vars

\* C5 witness: a file was loaded (which clears the flag), the cursor was
\* moved and a character deleted: the buffer is dirty.
C5_Witness ==
    /\ path # NoPath
    /\ is_dirty
    /\ content.cursor = 0
    /\ ContentText(content) # disk[path]
    /\ completed = 1
    /\ issued = 1

\* C6: handling FileOpened(Ok((p, t))) in any state puts exactly t in the
\* buffer with the cursor at the start, sets path to p and clears is_dirty.
C6_LoadReplacesBuffer ==
    [][\A t \in InFlight :
          (Handled(t) /\ t.kind # "save_file" /\ t.result.ok) =>
              /\ content' = [text |-> t.result.text, cursor |-> 0]
              /\ path' = t.result.path
              /\ ~is_dirty']_vars

\* C6 witness: a successful load of another text is about to be handled while
\* an opened file has unsaved edits and the cursor is away from the start.
C6_Witness ==
    \E t \in InFlight :
        /\ t.stage = "done"
        /\ t.kind = "pick_file"
        /\ t.result.ok
        /\ t.result.text # ContentText(content)
        /\ is_dirty
        /\ path # NoPath
        /\ content.cursor > 0

\* The futures a step takes out of flight and puts in flight.
Removed == BagToSet(tasks (-) tasks')

Added == BagToSet(tasks' (-) tasks)

\* The step is one of the executor on future t, which becomes t2.
Ran(t, t2) ==
    /\ issued' = issued
    /\ completed' = completed
    /\ Removed = {t}
    /\ Added = {t2}

\* C7: a save writes the buffer text and the path that the handling of Save
\* saw (the dialog's path when there was none), whatever update handles in
\* between, and FileSaved(Ok(p)) carries the path written.
C7_SaveWritesSnapshot ==
    [][/\ \A t \in Added :
              (issued' = issued + 1 /\ t.kind = "save_file") =>
                  /\ t.text = content.text
                  /\ t.path = path
                  /\ t.stage = (IF path = NoPath THEN "dialog" ELSE "io")
       /\ \A t \in InFlight :
              t.kind = "save_file" =>
                  \/ CopiesIn(t, tasks') >= CopiesIn(t, tasks)
                  \/ Handled(t)
                  \/ \E t2 \in Added :
                        /\ Ran(t, t2)
                        /\ t2.kind = "save_file"
                        /\ t2.text = t.text
                        /\ t.path # NoPath => t2.path = t.path
                        /\ (t2.stage = "done" /\ t2.result.ok) =>
                              /\ disk' = [disk EXCEPT ![t.path] = t.text]
                              /\ t2.result.path = t.path
       /\ disk' # disk =>
              \E t \in InFlight, t2 \in Added :
                  /\ Ran(t, t2)
                  /\ t.kind = "save_file"
                  /\ t2.result.ok]_vars

\* C7 witness: a save has written its snapshot, and by then the editor holds
\* another text under another path.
C7_Witness ==
    \E t \in InFlight :
        /\ t.kind = "save_file"
        /\ t.stage = "done"
        /\ t.result.ok
        /\ disk[t.path] = t.text
        /\ t.text # ContentText(content)
        /\ path # t.path

\* C8: update handles FileSaved(Ok(p)) only after a write to p has completed
\* and FileOpened(Ok((p, t))) only after a read of p has returned t; is_dirty
\* is cleared and path is set only then; a cancelled dialog starts no read
\* and no write.
C8_IoBeforeStateChange ==
    [][/\ \A t \in InFlight :
              (Handled(t) /\ t.result.ok) =>
                  /\ t.attempts = 1
                  /\ t.path = t.result.path
       /\ \A t \in InFlight, t2 \in Added :
              (Ran(t, t2) /\ t2.result.ok) =>
                  /\ t.stage = "io"
                  /\ t2.attempts = t.attempts + 1
                  /\ t.kind # "save_file" =>
                        t2.result.text = disk[t.path] /\ disk' = disk
                  /\ t.kind = "save_file" => disk'[t.path] = t.text
       /\ ((is_dirty /\ ~is_dirty') \/ (path' # path /\ path' # NoPath)) =>
              \E t \in InFlight :
                  /\ Handled(t)
                  /\ t.result.ok
                  /\ t.attempts = 1
                  /\ path' = t.path
       /\ \A t \in InFlight, t2 \in Added :
              (Ran(t, t2) /\ t2.result = Err(DialogClosed)) =>
                  /\ t2.attempts = 0
                  /\ disk' = disk
       /\ \A t \in InFlight :
              t.result = Err(DialogClosed) => t.attempts = 0]_vars

\* C8 witness: a save of "a" to notes.txt, chosen in the dialog, has been
\* written and its FileSaved(Ok) handled.
C8_Witness ==
    /\ ~is_dirty
    /\ path = "notes.txt"
    /\ disk["notes.txt"] = <<"a">>
    /\ ContentText(content) = <<"a">>

\* C9: only Open and Save issue a command, one each; handling a completion
\* issues none; every future makes at most one read or write attempt; and
\* every command issued is either in flight or has had its one completion
\* message handled.
C9_NoRetry ==
    [][/\ issued' # issued =>
              /\ Open \/ Save
              /\ issued' = issued + 1
              /\ completed' = completed
              /\ BagCardinality(tasks') = BagCardinality(tasks) + 1
       /\ completed' # completed =>
              /\ \E t \in InFlight : Handled(t)
              /\ completed' = completed + 1
              /\ issued' = issued
              /\ BagCardinality(tasks') = BagCardinality(tasks) - 1
       /\ \A t \in InFlight : t.attempts <= 1
       /\ issued = BagCardinality(tasks) + completed]_vars

\* C9 witness: both commands have failed, each failure has been handled, and
\* nothing is in flight.
C9_Witness ==
    /\ issued = 2
    /\ completed = 2
    /\ tasks = EmptyBag
    /\ error.tag = "IoFailed"

\* C10: a FileSaved(Ok(p)) handled after New or FileOpened(Ok) has replaced
\* the document that was saved changes neither path nor is_dirty.
C10_LateSaveLeavesNewDocument ==
    [][\A t \in InFlight :
          (Handled(t) /\ t.kind = "save_file" /\ t.result.ok /\ replaced) =>
              UNCHANGED <<path, is_dirty>>]_vars

\* C11: error changes only when Edit is handled, which sets it to None, or
\* when FileOpened(Err(e)) or FileSaved(Err(e)) is handled, which sets it to
\* Some(e); New, Open, Save, ThemeSelected, FileOpened(Ok) and FileSaved(Ok)
\* leave it as it was, so an IoFailed error is still held after a successful
\* load or save, and the status bar shows it instead of the path. (A step
\* that leaves error other than None is no call of update on Edit; a step
\* that changes error is no call of update on New, Open, Save or
\* ThemeSelected.)
C11_ErrorFrame ==
    [][/\ error' # error =>
              \/ \E a \in Actions : Calls(MsgEdit(a))
              \/ \E t \in InFlight : Handled(t) /\ ~t.result.ok
       /\ error' # NoError => \A a \in Actions : ~Calls(MsgEdit(a))
       /\ \A t \in InFlight :
              (Handled(t) /\ ~t.result.ok) =>
                  /\ error' = t.result.err
                  /\ error' # NoError
       /\ error' # error =>
              \A m \in {MsgNew, MsgOpen, MsgSave}
                        \cup {MsgThemeSelected(th) : th \in Themes} :
                  ~Calls(m)
       /\ \A t \in InFlight :
              (Handled(t) /\ t.result.ok) =>
                  /\ error' = error
                  /\ error.tag = "IoFailed" =>
                        /\ path' # NoPath
                        /\ status_bar(Editor)' = <<"error", error.kind>>]_vars

\* C11 witness: a load or save has failed and another has succeeded; the
\* editor holds the path of the file and the IoFailed error, and the status
\* bar shows the error.
C11_Witness ==
    /\ error.tag = "IoFailed"
    /\ path # NoPath
    /\ ~is_dirty
    /\ completed = 2
    /\ status_bar(Editor) = <<"error", error.kind>>
    /\ status_bar(Editor) # <<"path", path>>

\* C12: Save can be handled in any state: the Save button sends it only when
\* is_dirty, the Ctrl/Cmd+S key press sends it whatever is_dirty is, and
\* update does not look at is_dirty: handling Save starts a save of the
\* current buffer text under the current path, also when is_dirty is false,
\* which first opens a dialog when path is None.
C12_SaveInAnyState ==
    /\ [](/\ MsgSave \in view(Editor) <=> is_dirty
          /\ MsgSave \in subscription(Editor)
          /\ issued < MaxRequests => ENABLED Save)
    /\ [][Save =>
              /\ issued' = issued + 1
              /\ \E t \in Added :
                    /\ Added = {t}
                    /\ t.kind = "save_file"
                    /\ t.text = ContentText(content)
                    /\ t.path = path
                    /\ t.stage = (IF path = NoPath THEN "dialog" ELSE "io")
                    /\ t.attempts = 0]_vars

\* C12 witness: the file loaded at startup is unchanged, so is_dirty is false
\* and the Save button is off, and a save of the buffer to its path has been
\* started and is awaiting its write.
C12_Witness ==
    /\ ~is_dirty
    /\ MsgSave \notin view(Editor)
    /\ path = default_file
    /\ completed = 1
    /\ \E t \in InFlight :
          /\ t.kind = "save_file"
          /\ t.stage = "io"
          /\ t.path = path
          /\ t.text = ContentText(content)

\* C13: New can be handled in any state, with unsaved edits or with a load
\* or save in flight; handling it sets path to None, replaces the buffer
\* with an empty Content and sets is_dirty to true, leaves error and theme as
\* they were and issues no command: the futures in flight stay as they are.
C13_NewResetsDocument ==
    /\ [](MsgNew \in view(Editor) /\ ENABLED New)
    /\ [][New =>
              /\ path' = NoPath
              /\ content' = [text |-> <<>>, cursor |-> 0]
              /\ is_dirty'
              /\ UNCHANGED <<error, theme>>
              /\ UNCHANGED <<tasks, issued, completed, disk>>]_vars

\* C13 witness: a buffer holding "a" was being saved when New was handled:
\* the save is still in flight with that text, and the editor holds an empty,
\* dirty document without a path.
C13_Witness ==
    /\ replaced
    /\ path = NoPath
    /\ content = ContentNew
    /\ is_dirty
    /\ \E t \in InFlight : t.kind = "save_file" /\ t.text = <<"a">>

\* C14: handling Open or Save leaves path, content, is_dirty, error and theme
\* as they were, and touches no file: it only puts the command's future in
\* flight, Save's carrying the buffer text and path it read; handling
\* ThemeSelected(th) sets theme to th and changes nothing else.
C14_RequestsLeaveState ==
    [][/\ (Calls(MsgOpen) \/ Calls(MsgSave)) =>
              /\ UNCHANGED <<path, content, is_dirty, error, theme>>
              /\ UNCHANGED <<disk, completed>>
              /\ issued' = issued + 1
              /\ Removed = {}
       /\ Calls(MsgOpen) => Added = {Spawn(CommandPickFile)}
       /\ Calls(MsgSave) =>
              Added = {Spawn(CommandSaveFile(path', content'.text))}
       /\ \A th \in Themes :
              Calls(MsgThemeSelected(th)) =>
                  /\ theme' = th
                  /\ UNCHANGED <<path, content, is_dirty, error>>
                  /\ UNCHANGED <<tasks, issued, completed, disk>>]_vars

\* C14 witness: with an IoFailed error shown and the other theme selected,
\* Open has been handled: its dialog is in flight, and the error, the theme,
\* the empty path and the dirty flag are as they were.
C14_Witness ==
    /\ error.tag = "IoFailed"
    /\ theme = "InspiredGitHub"
    /\ path = NoPath
    /\ is_dirty
    /\ completed = 1
    /\ tasks = One(Spawn(CommandPickFile))

\* The state Editor::new leaves: no path, an empty buffer, no error, is_dirty
\* set, and one future in flight, the load of the default file, which awaits
\* the file system and no dialog.
StartupState ==
    /\ path = NoPath
    /\ content = [text |-> <<>>, cursor |-> 0]
    /\ error = NoError
    /\ is_dirty = TRUE
    /\ BagCardinality(tasks) = 1
    /\ \A t \in InFlight :
          /\ t.kind = "load_file"
          /\ t.path = default_file
          /\ t.stage = "io"
          /\ t.attempts = 0

\* The future of the load Editor::new issues: Open's futures are pick_file.
StartupLoad(t) == t.kind = "load_file"

\* C15 as stated: from the startup state, handling the success of the startup
\* load gives path = default file, buffer = the text read and is_dirty =
\* false, whatever was edited meanwhile; handling its failure leaves the
\* buffer as it is, with path = None and is_dirty = true, and records
\* IoFailed(kind) in error.
C15_StartupAsStated ==
    /\ StartupState
    /\ [][\A t \in InFlight :
              (Handled(t) /\ StartupLoad(t)) =>
                  IF t.result.ok
                  THEN /\ path' = default_file
                       /\ content' = [text |-> t.result.text, cursor |-> 0]
                       /\ ~is_dirty'
                  ELSE /\ content' = content
                       /\ path' = NoPath
                       /\ is_dirty'
                       /\ error' = t.result.err
                       /\ error'.tag = "IoFailed"]_vars

\* C15, amended: as above, except that on failure path and is_dirty are left
\* as they are at that moment: they are None and true when no other load or
\* save has completed before the startup load fails.
C15_Startup ==
    /\ StartupState
    /\ [][\A t \in InFlight :
              (Handled(t) /\ StartupLoad(t)) =>
                  IF t.result.ok
                  THEN /\ path' = default_file
                       /\ content' = [text |-> t.result.text, cursor |-> 0]
                       /\ ~is_dirty'
                  ELSE /\ content' = content
                       /\ UNCHANGED <<path, is_dirty>>
                       /\ completed = 0 => (path' = NoPath /\ is_dirty')
                       /\ error' = t.result.err
                       /\ error'.tag = "IoFailed"]_vars

\* C15 witness: a character was typed while the startup load was the only
\* command issued; the load has failed and its failure has been handled: the
\* typed text is still in the buffer, without a path and dirty, and the
\* error is recorded.
C15_Witness ==
    /\ issued = 1
    /\ completed = 1
    /\ tasks = EmptyBag
    /\ error.tag = "IoFailed"
    /\ ContentText(content) = <<"a">>
    /\ path = NoPath
    /\ is_dirty

====
